---- MODULE Spec2Model ----
(***************************************************************************)
(* The ONIX book import pipeline of src/server/services/bookImport.ts:      *)
(* processIncomingFiles lists the inbox and runs importOnixFile on every   *)
(* XML file, one after the other; importOnixFile opens an ImportLog,       *)
(* parses the file, upserts every parsed record into the catalog           *)
(* (importBook / findExistingBook), finalizes the log and moves the file.  *)
(* Every await of the code is one step; every database call and every      *)
(* rename may throw.                                                       *)
(***************************************************************************)
EXTENDS Integers, Sequences, FiniteSets, TLC

\* ------------------------------------------------------------------ bounds
\* calls of processIncomingFiles in one behaviour
MaxBatches == 1
\* database / filesystem calls that throw in one behaviour
MaxFaults == 2

\* ------------------------------------------------------------- vocabulary
\* an absent (undefined / SQL NULL) value
None == "none"

Truthy(v) == v # None /\ v # ""

\* JavaScript a || b on optional strings
Or(a, b) == IF Truthy(a) THEN a ELSE b

\* ParsedBook, restricted to the fields importBook reads
ParsedBook(ref, i13, i10, t, a) ==
    [recordReference |-> ref, isbn13 |-> i13, isbn10 |-> i10, title |-> t, author |-> a]

\* the record has one of the three identifiers findExistingBook looks at
HasIdentity(b) ==
    Truthy(b.isbn13) \/ Truthy(b.isbn10) \/ Truthy(b.recordReference)

HasIsbn(b) == Truthy(b.isbn13) \/ Truthy(b.isbn10)

BookA  == ParsedBook("r1", "x", None, "t1", "a1")
BookA2 == ParsedBook("r2", "x", None, "t2", None)
BookC  == ParsedBook("r1", None, None, None, None)
BookN  == ParsedBook(None, None, None, None, None)

\* what a file in imports/incoming can hold: text that is not ONIX, or a
\* message with one or more Product nodes
Onix(products) == [kind |-> "onix", products |-> products]
BadXml == [kind |-> "malformed", products |-> <<>>]

Contents ==
    { BadXml, Onix(<<BookA>>), Onix(<<BookC, BookA2>>), Onix(<<BookA, BookN>>) }

XmlFiles == {"a.xml", "B.XML"}
OtherFiles == {"notes.txt"}
Files == XmlFiles \cup OtherFiles

\* EndsWithXml without the toLowerCase()
EndsWithXmlCaseSensitive(f) == f \in {"a.xml"}

\* file.toLowerCase().endsWith('.xml')
EndsWithXml(f) == f \in {"a.xml", "B.XML"}

\* a catalog row, restricted to the columns the import reads or writes
Row(isbn, ext, t, a) == [isbn |-> isbn, externalId |-> ext, title |-> t, author |-> a]

\* catalogs the import can start from: empty, or one book created earlier
InitialCatalogs == { <<>>, <<Row("x", "r1", "t0", "a0")>> }

VARIABLES
    incoming,      \* names in imports/incoming
    processed,     \* names in imports/processed
    failed,        \* names in imports/failed
    content,       \* what each XML file holds
    books,         \* the catalog table, row id = index
    importLogs,    \* the import_log table, id = index
    importErrors,  \* the import_error table, id = index
    pc,            \* position of processIncomingFiles
    xmlFiles,      \* its xmlFiles list
    results,       \* its results list
    thrown,        \* the call that made processIncomingFiles throw, or None
    run,           \* locals of the importOnixFile call in progress
    summary,       \* what importRouter.processFiles returned last
    faults,        \* calls that threw so far
    batches,       \* calls of processIncomingFiles so far
    hist,          \* history: one entry per importOnixFile call that ended
    workers,       \* locals of the importBook calls of concurrent imports
    product,       \* the Product node handed to parseProduct
    parsed,        \* what parseProduct returned for it, per tag convention
    nodes,         \* the repeated elements handed to an extract function
    extracted,     \* what the extract function returned for them
    parsedFile,    \* what parseOnixFile returned, per file, on its own
    users,         \* the user table: creditQuota and creditsUsed per user
    creditUsage,   \* the credit_usage table
    ops,           \* locals of the AI operations in flight
    rowLock        \* the transaction holding the row lock of the user row

vars == <<incoming, processed, failed, content, books, importLogs, importErrors,
          pc, xmlFiles, results, thrown, run, summary, faults, batches, hist,
          workers, product, parsed, nodes, extracted, parsedFile,
          users, creditUsage, ops, rowLock>>

dirs == <<incoming, processed, failed>>
tables == <<books, importLogs, importErrors>>
counters == <<faults, batches>>
\* the state of the concurrent importBook calls and of the parser on its own
aside == <<workers, product, parsed, nodes, extracted, parsedFile,
           users, creditUsage, ops, rowLock>>

\* the parts of that state a specification does not use
NoExtract == nodes = None /\ extracted = None
NoFiles == parsedFile = None
NoCredits == users = <<>> /\ creditUsage = <<>> /\ ops = <<>> /\ rowLock = None

\* history of the last catalog write of a call: what was written and what it replaced
NoWrite == [kind |-> "none", id |-> 0, book |-> None, before |-> <<>>, lookupThrew |-> FALSE]

NoRun ==
    [pc |-> "none", filename |-> None, importLogId |-> 0, importedCount |-> 0,
     skippedCount |-> 0, errorCount |-> 0, errors |-> <<>>, parsedBooks |-> <<>>,
     parseError |-> None, i |-> 0, existingBook |-> 0, status |-> None,
     error |-> None,
     \* history of the call, read by the properties only
     lookups |-> 0, writes |-> 0, outcomes |-> <<>>, lastWrite |-> NoWrite,
     booksBefore |-> <<>>, faultsBefore |-> 0, raisedAt |-> None, readThrew |-> FALSE]

Init ==
    /\ incoming = Files
    /\ processed = {}
    /\ failed = {}
    /\ content \in [XmlFiles -> Contents]
    /\ books \in InitialCatalogs
    /\ importLogs = <<>>
    /\ importErrors = <<>>
    /\ pc = "idle"
    /\ xmlFiles = <<>>
    /\ results = <<>>
    /\ thrown = None
    /\ run = NoRun
    /\ summary = None
    /\ faults = 0
    /\ batches = 0
    /\ hist = <<>>
    /\ workers = <<>>
    /\ product = None
    /\ parsed = None
    /\ NoExtract /\ NoFiles /\ NoCredits

\* one database or filesystem call: FALSE = it returns, TRUE = it throws
Throws == {FALSE} \cup (IF faults < MaxFaults THEN {TRUE} ELSE {})

Fault(t) == faults' = faults + (IF t THEN 1 ELSE 0)

DbError == "database call failed"
FsError == "rename failed"
ReadError == "ENOENT: no such file"
XmlError == "Unexpected close tag"

\* ------------------------------------------------------------- the parser
\* parseOnixFile(filepath): the whole body is inside try/catch, so a read
\* failure or an XML syntax error comes back as { books: [], error }
parseOnixFile(c, readThrows) ==
    IF readThrows THEN [books |-> <<>>, error |-> ReadError]
    ELSE IF c.kind = "malformed" THEN [books |-> <<>>, error |-> XmlError]
    ELSE [books |-> c.products, error |-> None]

\* ------------------------------------------------------------ the catalog
\* Matches with the ISBN-10 looked at before the ISBN-13
MatchesIsbn10First(row, isbn13, isbn10, recordReference) ==
    IF Truthy(isbn10) THEN row.isbn = isbn10
    ELSE IF Truthy(isbn13) THEN row.isbn = isbn13
    ELSE row.externalId = recordReference

\* the WHERE clause of findExistingBook: isbn13, else isbn10, else reference
Matches(row, isbn13, isbn10, recordReference) ==
    IF Truthy(isbn13) THEN row.isbn = isbn13
    ELSE IF Truthy(isbn10) THEN row.isbn = isbn10
    ELSE row.externalId = recordReference

\* findExistingBook looking at the record reference only
findExistingBookByReference(isbn13, isbn10, recordReference, queryThrows) ==
    IF ~Truthy(recordReference) \/ queryThrows THEN {0}
    ELSE LET found == { id \in DOMAIN books : books[id].externalId = recordReference }
         IN  IF found = {} THEN {0} ELSE found

\* findExistingBook without the early return for a record with no identifier
findExistingBookUnguarded(isbn13, isbn10, recordReference, queryThrows) ==
    IF queryThrows THEN {0}
    ELSE LET found == { id \in DOMAIN books :
                          Matches(books[id], isbn13, isbn10, recordReference) }
         IN  IF found = {} THEN {0} ELSE found

\* findExistingBook: the row ids it can return, 0 standing for null. The
\* query has LIMIT 1 and no ORDER BY, so with several matching rows any of
\* them can come back; a query that throws is caught and gives null.
findExistingBook(isbn13, isbn10, recordReference, queryThrows) ==
    IF ~Truthy(isbn13) /\ ~Truthy(isbn10) /\ ~Truthy(recordReference) THEN {0}
    ELSE IF queryThrows THEN {0}
    ELSE LET found == { id \in DOMAIN books :
                          Matches(books[id], isbn13, isbn10, recordReference) }
         IN  IF found = {} THEN {0} ELSE found

\* the bookData object of importBook
bookData(book) ==
    Row(Or(book.isbn13, book.isbn10), book.recordReference,
        Or(book.title, "Untitled"), Or(book.author, "Unknown"))

\* db.update(books).set(data).where(id): the ORM leaves a column alone when
\* its value in the set object is undefined
UpdateSet(row, data) ==
    [f \in DOMAIN row |-> IF data[f] = None THEN row[f] ELSE data[f]]

\* Upsert deciding at the time of the write: a record whose ISBN a row of the
\* catalog already has updates that row
UpsertIfAbsent(catalog, existingBook, data) ==
    LET same == { id \in DOMAIN catalog : data.isbn # None /\ catalog[id].isbn = data.isbn } IN
    IF existingBook # 0
    THEN [catalog EXCEPT ![existingBook] = UpdateSet(@, data)]
    ELSE IF same # {}
         THEN [catalog EXCEPT ![CHOOSE id \in same : TRUE] = UpdateSet(@, data)]
         ELSE Append(catalog, data)

\* the write of importBook: db.update(books) of the row the lookup returned,
\* or db.insert(books) when it returned null
Upsert(catalog, existingBook, data) ==
    IF existingBook # 0
    THEN [catalog EXCEPT ![existingBook] = UpdateSet(@, data)]
    ELSE Append(catalog, data)

\* what importBook returns when its write went through
importBookOk(existingBook) == [success |-> TRUE, skipped |-> FALSE, error |-> None]

\* what importBook returns from its catch block
importBookFailed(message) == [success |-> FALSE, skipped |-> FALSE, error |-> message]

\* ------------------------------------------------------------- audit rows
NewLog(filename) ==
    [filename |-> filename, status |-> "processing", totalBooks |-> 0,
     importedBooks |-> 0, skippedBooks |-> 0, errorCount |-> 0,
     completedAt |-> None,
     \* history: how many updates have written completedAt
     completedAtWrites |-> 0]

\* NewError with the row not linked to the log of the call
NewErrorUnlinked(importLogId, errorType, bookIdentifier, errorMessage) ==
    [importLogId |-> 0, errorType |-> errorType,
     bookIdentifier |-> bookIdentifier, errorMessage |-> errorMessage]

NewError(importLogId, errorType, bookIdentifier, errorMessage) ==
    [importLogId |-> importLogId, errorType |-> errorType,
     bookIdentifier |-> bookIdentifier, errorMessage |-> errorMessage]

ImportResult(success, importLogId, totalBooks, importedBooks, skippedBooks, errorCount, errors) ==
    [success |-> success, importLogId |-> importLogId, totalBooks |-> totalBooks,
     importedBooks |-> importedBooks, skippedBooks |-> skippedBooks,
     errorCount |-> errorCount, errors |-> errors]

\* the errors field of a result when it is undefined
NoErrors == <<>>

\* ------------------------------------------------- processIncomingFiles
\* the orders readdir can list a set of names in
Listings(S) ==
    { l \in [1..Cardinality(S) -> S] : \A a, b \in DOMAIN l : a # b => l[a] # l[b] }

RECURSIVE Filter(_)
\* files.filter(file => file.toLowerCase().endsWith('.xml'))
Filter(l) ==
    IF l = <<>> THEN <<>>
    ELSE (IF EndsWithXml(Head(l)) THEN <<Head(l)>> ELSE <<>>) \o Filter(Tail(l))

\* readdir(INCOMING_DIR) and the filter; a readdir that throws is rethrown
processIncomingFiles ==
    /\ pc = "idle"
    /\ batches < MaxBatches
    /\ batches' = batches + 1
    /\ \E t \in Throws :
         /\ Fault(t)
         /\ IF t
            THEN /\ thrown' = "readdir"
                 /\ pc' = "done"
                 /\ UNCHANGED xmlFiles
            ELSE /\ \E files \in Listings(incoming) :
                       /\ xmlFiles' = Filter(files)
                       /\ pc' = IF xmlFiles' = <<>> THEN "done" ELSE "loop"
                 /\ thrown' = None
    /\ results' = <<>>
    /\ UNCHANGED aside
    /\ UNCHANGED <<dirs, content, tables, run, summary, hist>>

\* the history entry of a call of importOnixFile that ended
Ended(path, result) ==
    [filename |-> run.filename, content |-> content[run.filename], path |-> path,
     importLogId |-> run.importLogId, faults |-> faults' - run.faultsBefore,
     lookups |-> run.lookups, writes |-> run.writes, outcomes |-> run.outcomes,
     parsed |-> Len(run.parsedBooks), raisedAt |-> run.raisedAt,
     readThrew |-> run.readThrew, cause |-> IF path = "threw" THEN thrown' ELSE None,
     booksBefore |-> run.booksBefore, booksAfter |-> books, result |-> result]

NoResult == ImportResult(FALSE, 0, 0, 0, 0, 0, NoErrors)

\* importOnixFile returns: results.push(result), then the next file or return
Return(path, result) ==
    /\ results' = Append(results, result)
    /\ run' = NoRun
    /\ hist' = Append(hist, Ended(path, result))
    /\ pc' = IF Len(results') = Len(xmlFiles) THEN "done" ELSE "loop"
    /\ UNCHANGED thrown

\* importOnixFile throws: the catch of processIncomingFiles rethrows
Throw(cause) ==
    /\ thrown' = cause
    /\ run' = NoRun
    /\ hist' = Append(hist, Ended("threw", NoResult))
    /\ pc' = "done"
    /\ UNCHANGED results

\* Catch without the catch block: the exception leaves importOnixFile
CatchRethrows(message) ==
    /\ thrown' = message
    /\ run' = NoRun
    /\ hist' = Append(hist, Ended("threw", NoResult))
    /\ pc' = "done"
    /\ UNCHANGED results

\* an exception inside the try block of importOnixFile: control goes to its catch
Catch(message) ==
    /\ run' = [run EXCEPT !.pc = "catchLogError", !.error = message, !.raisedAt = run.pc]
    /\ UNCHANGED <<pc, results, thrown, hist>>

\* --------------------------------------------------------- importOnixFile
\* db.insert(importLogs)...returning(), before the try block
importOnixFile ==
    /\ pc = "loop"
    /\ run.pc = "none"
    /\ LET filename == xmlFiles[Len(results) + 1] IN
       \E t \in Throws :
         /\ Fault(t)
         /\ IF t
            THEN /\ thrown' = "insertLog"
                 /\ pc' = "done"
                 /\ hist' = Append(hist,
                        [filename |-> filename, content |-> content[filename],
                         path |-> "threw", importLogId |-> 0, faults |-> 1,
                         lookups |-> 0, writes |-> 0, outcomes |-> <<>>,
                         parsed |-> 0, raisedAt |-> None,
                         readThrew |-> FALSE, cause |-> "insertLog",
                         booksBefore |-> books, booksAfter |-> books,
                         result |-> NoResult])
                 /\ UNCHANGED <<importLogs, run>>
            ELSE /\ importLogs' = Append(importLogs, NewLog(filename))
                 /\ run' = [NoRun EXCEPT !.pc = "parse", !.filename = filename,
                                         !.importLogId = Len(importLogs) + 1,
                                         !.booksBefore = books,
                                         !.faultsBefore = faults]
                 /\ UNCHANGED <<pc, thrown, hist>>
    /\ UNCHANGED aside
    /\ UNCHANGED <<dirs, content, books, importErrors, xmlFiles, results, summary, batches>>

\* await parseOnixFile(filepath) and the branch on parseError
Parse ==
    /\ run.pc = "parse"
    /\ \E t \in Throws :
         /\ Fault(t)
         /\ LET r == parseOnixFile(content[run.filename], t) IN
            run' = IF Truthy(r.error)
                   THEN [run EXCEPT !.pc = "logParseError", !.parseError = r.error,
                                    !.readThrew = t]
                   ELSE [run EXCEPT !.parsedBooks = r.books, !.i = 1,
                                    !.pc = IF r.books = <<>> THEN "finalize"
                                           ELSE "findExistingBook"]
    /\ UNCHANGED aside
    /\ UNCHANGED <<dirs, content, tables, pc, xmlFiles, results, thrown, summary,
                   batches, hist>>

\* FailedLog with the status left out of the update
FailedLogKeepsStatus(log, errorCount) ==
    [log EXCEPT !.errorCount = errorCount, !.completedAt = "set",
                !.completedAtWrites = @ + 1]

\* the log row after .set({ status: 'failed', errorCount, completedAt })
FailedLog(log, errorCount) ==
    [log EXCEPT !.status = "failed", !.errorCount = errorCount, !.completedAt = "set",
                !.completedAtWrites = @ + 1]

\* ParseErrorResult reporting the error without counting it
ParseErrorResultUncounted(importLogId, parseError) ==
    ImportResult(FALSE, importLogId, 0, 0, 0, 0, <<parseError>>)

\* the result importOnixFile returns from its parse-error branch
ParseErrorResult(importLogId, parseError) ==
    ImportResult(FALSE, importLogId, 0, 0, 0, 1, <<parseError>>)

\* db.insert(importErrors) of the parse_error
LogParseError ==
    /\ run.pc = "logParseError"
    /\ \E t \in Throws :
         /\ Fault(t)
         /\ IF t
            THEN Catch(DbError) /\ UNCHANGED importErrors
            ELSE /\ importErrors' = Append(importErrors,
                        NewError(run.importLogId, "parse_error", None, run.parseError))
                 /\ run' = [run EXCEPT !.pc = "failLog"]
                 /\ UNCHANGED <<pc, results, thrown, hist>>
    /\ UNCHANGED aside
    /\ UNCHANGED <<dirs, content, books, importLogs, xmlFiles, summary, batches>>

\* db.update(importLogs) to failed and the return of the parse-error branch
FailLog ==
    /\ run.pc = "failLog"
    /\ \E t \in Throws :
         /\ Fault(t)
         /\ IF t
            THEN Catch(DbError) /\ UNCHANGED importLogs
            ELSE /\ importLogs' = [importLogs EXCEPT ![run.importLogId] = FailedLog(@, 1)]
                 /\ Return("parseError", ParseErrorResult(run.importLogId, run.parseError))
    /\ UNCHANGED aside
    /\ UNCHANGED <<dirs, content, books, importErrors, xmlFiles, summary, batches>>

\* the record the loop is at
book == run.parsedBooks[run.i]

\* NextRecord with the loop left at the first record that failed
NextRecordStopsOnError(r) ==
    [r EXCEPT !.i = r.i + 1,
              !.pc = IF r.i + 1 > Len(r.parsedBooks) \/ r.errorCount > 0
                     THEN "finalize" ELSE "findExistingBook"]

\* the loop of importOnixFile moves to the next record, or leaves the loop
NextRecord(r) ==
    [r EXCEPT !.i = r.i + 1,
              !.pc = IF r.i + 1 > Len(r.parsedBooks) THEN "finalize"
                     ELSE "findExistingBook"]

\* Count with a failed record left out of the counters
CountIgnoresFailure(r, result) ==
    IF result.success
    THEN [r EXCEPT !.importedCount = r.importedCount + 1]
    ELSE r

\* the counters of importOnixFile after importBook returned result
Count(r, result) ==
    IF result.success
    THEN IF result.skipped
         THEN [r EXCEPT !.skippedCount = r.skippedCount + 1]
         ELSE [r EXCEPT !.importedCount = r.importedCount + 1]
    ELSE [r EXCEPT !.errorCount = r.errorCount + 1,
                   !.errors = IF Truthy(result.error)
                              THEN Append(r.errors, result.error) ELSE r.errors]

\* importBook, first await: findExistingBook(book.isbn13, book.isbn10,
\* book.recordReference); a record with no identifier makes no query
FindExistingBook ==
    /\ run.pc = "findExistingBook"
    /\ \E t \in (IF HasIdentity(book) THEN Throws ELSE {FALSE}) :
         /\ Fault(t)
         /\ \E id \in findExistingBook(book.isbn13, book.isbn10, book.recordReference, t) :
              run' = [run EXCEPT !.pc = "writeBook", !.existingBook = id,
                                 !.lookups = run.lookups + 1,
                                 !.lastWrite = [NoWrite EXCEPT !.lookupThrew = t]]
    /\ UNCHANGED aside
    /\ UNCHANGED <<dirs, content, tables, pc, xmlFiles, results, thrown, summary,
                   batches, hist>>

\* importBook, second await: db.update(books) or db.insert(books), then the
\* counting of the result in importOnixFile
WriteBook ==
    /\ run.pc = "writeBook"
    /\ \E t \in Throws :
         /\ Fault(t)
         /\ IF t
            THEN /\ run' = [run EXCEPT !.pc = "logBookError", !.error = DbError,
                                       !.writes = run.writes + 1]
                 /\ UNCHANGED books
            ELSE /\ books' = Upsert(books, run.existingBook, bookData(book))
                 /\ run' = NextRecord(Count(
                        [run EXCEPT !.writes = run.writes + 1,
                                    !.outcomes = Append(run.outcomes, "ok"),
                                    !.lastWrite =
                                       [kind |-> IF run.existingBook # 0 THEN "update"
                                                 ELSE "insert",
                                        id |-> run.existingBook, book |-> book,
                                        before |-> books,
                                        lookupThrew |-> run.lastWrite.lookupThrew]],
                        importBookOk(run.existingBook)))
    /\ UNCHANGED aside
    /\ UNCHANGED <<dirs, content, importLogs, importErrors, pc, xmlFiles, results,
                   thrown, summary, batches, hist>>

\* importBook, catch block: db.insert(importErrors) of the database_error
LogBookError ==
    /\ run.pc = "logBookError"
    /\ \E t \in Throws :
         /\ Fault(t)
         /\ IF t
            THEN Catch(DbError) /\ UNCHANGED importErrors
            ELSE /\ importErrors' = Append(importErrors,
                        NewError(run.importLogId, "database_error",
                                 Or(book.isbn13, Or(book.isbn10, book.recordReference)),
                                 run.error))
                 /\ run' = NextRecord(Count(
                        [run EXCEPT !.outcomes = Append(run.outcomes, "error")],
                        importBookFailed(run.error)))
                 /\ UNCHANGED <<pc, results, thrown, hist>>
    /\ UNCHANGED aside
    /\ UNCHANGED <<dirs, content, books, importLogs, xmlFiles, summary, batches>>

\* FinalStatus with any failed record failing the file
FinalStatusAnyError(errorCount, total) ==
    IF errorCount > 0 THEN "failed" ELSE "completed"

\* the status importOnixFile gives the log after the loop
FinalStatus(errorCount, total) ==
    IF errorCount = total THEN "failed" ELSE "completed"

\* db.update(importLogs) with the final status and the counts
Finalize ==
    /\ run.pc = "finalize"
    /\ \E t \in Throws :
         /\ Fault(t)
         /\ IF t
            THEN Catch(DbError) /\ UNCHANGED importLogs
            ELSE LET status == FinalStatus(run.errorCount, Len(run.parsedBooks)) IN
                 /\ importLogs' = [importLogs EXCEPT ![run.importLogId] =
                        [@ EXCEPT !.status = status,
                                  !.totalBooks = Len(run.parsedBooks),
                                  !.importedBooks = run.importedCount,
                                  !.skippedBooks = run.skippedCount,
                                  !.errorCount = run.errorCount,
                                  !.completedAt = "set",
                                  !.completedAtWrites = @ + 1]]
                 /\ run' = [run EXCEPT !.pc = "move", !.status = status]
                 /\ UNCHANGED <<pc, results, thrown, hist>>
    /\ UNCHANGED aside
    /\ UNCHANGED <<dirs, content, books, importErrors, xmlFiles, summary, batches>>

\* rename(filepath, join(dir, filename)) went through
Renamed(filename, dir) ==
    /\ incoming' = incoming \ {filename}
    /\ processed' = IF dir = "processed" THEN processed \cup {filename} ELSE processed
    /\ failed' = IF dir = "failed" THEN failed \cup {filename} ELSE failed

\* the directory importOnixFile moves the file to after the loop
TargetDir(status) == IF status = "failed" THEN "failed" ELSE "processed"

\* await rename(filepath, targetPath) and the return of the normal path
Move ==
    /\ run.pc = "move"
    /\ \E t \in Throws :
         /\ Fault(t)
         /\ IF t
            THEN Catch(FsError) /\ UNCHANGED dirs
            ELSE /\ Renamed(run.filename, TargetDir(run.status))
                 /\ Return("normal",
                        ImportResult(run.status = "completed", run.importLogId,
                                     Len(run.parsedBooks), run.importedCount,
                                     run.skippedCount, run.errorCount,
                                     IF Len(run.errors) > 0 THEN run.errors ELSE NoErrors))
    /\ UNCHANGED aside
    /\ UNCHANGED <<content, tables, xmlFiles, summary, batches>>

\* catch block of importOnixFile: db.insert(importErrors) of the system_error
CatchLogError ==
    /\ run.pc = "catchLogError"
    /\ \E t \in Throws :
         /\ Fault(t)
         /\ IF t
            THEN Throw("catch insertError") /\ UNCHANGED importErrors
            ELSE /\ importErrors' = Append(importErrors,
                        NewError(run.importLogId, "system_error", None, run.error))
                 /\ run' = [run EXCEPT !.pc = "catchFailLog"]
                 /\ UNCHANGED <<pc, results, thrown, hist>>
    /\ UNCHANGED aside
    /\ UNCHANGED <<dirs, content, books, importLogs, xmlFiles, summary, batches>>

\* catch block of importOnixFile: db.update(importLogs) to failed
CatchFailLog ==
    /\ run.pc = "catchFailLog"
    /\ \E t \in Throws :
         /\ Fault(t)
         /\ IF t
            THEN Throw("catch updateLog") /\ UNCHANGED importLogs
            ELSE /\ importLogs' = [importLogs EXCEPT ![run.importLogId] =
                        FailedLog(@, run.errorCount + 1)]
                 /\ run' = [run EXCEPT !.pc = "catchMove"]
                 /\ UNCHANGED <<pc, results, thrown, hist>>
    /\ UNCHANGED aside
    /\ UNCHANGED <<dirs, content, books, importErrors, xmlFiles, summary, batches>>

\* CatchMove with the rename unguarded: its failure leaves importOnixFile
CatchMoveRethrows ==
    /\ run.pc = "catchMove"
    /\ \E t \in Throws :
         /\ Fault(t)
         /\ IF t THEN Throw("catch rename") /\ UNCHANGED dirs
                 ELSE /\ IF run.filename \in incoming
                         THEN Renamed(run.filename, "failed")
                         ELSE UNCHANGED dirs
                      /\ Return("caught",
                             ImportResult(FALSE, run.importLogId, 0, run.importedCount,
                                          run.skippedCount, run.errorCount + 1,
                                          Append(run.errors, run.error)))
    /\ UNCHANGED aside
    /\ UNCHANGED <<content, tables, xmlFiles, summary, batches>>

\* catch block of importOnixFile: the guarded rename to the failed
\* directory (a failure is only printed) and the return of the failure result
CatchMove ==
    /\ run.pc = "catchMove"
    /\ \E t \in Throws :
         /\ Fault(t)
         /\ IF t THEN UNCHANGED dirs
                 ELSE IF run.filename \in incoming
                      THEN Renamed(run.filename, "failed")
                      ELSE UNCHANGED dirs
         /\ Return("caught",
                ImportResult(FALSE, run.importLogId, 0, run.importedCount,
                             run.skippedCount, run.errorCount + 1,
                             Append(run.errors, run.error)))
    /\ UNCHANGED aside
    /\ UNCHANGED <<content, tables, xmlFiles, summary, batches>>

\* ------------------------------------------------ importRouter.processFiles
RECURSIVE Sum(_, _)
\* results.reduce((sum, r) => sum + r[field], 0)
Sum(rs, field) == IF rs = <<>> THEN 0 ELSE Head(rs)[field] + Sum(Tail(rs), field)

\* the mutation returns the summary of the results, or fails with the
\* exception of processIncomingFiles
processFiles ==
    /\ pc = "done"
    /\ summary' =
         IF thrown # None THEN [error |-> thrown]
         ELSE [totalFiles |-> Len(results),
               successfulFiles |-> Len(SelectSeq(results, LAMBDA r : r.success)),
               failedFiles |-> Len(SelectSeq(results, LAMBDA r : ~r.success)),
               totalBooksImported |-> Sum(results, "importedBooks"),
               totalBooksSkipped |-> Sum(results, "skippedBooks"),
               totalErrors |-> Sum(results, "errorCount")]
    /\ pc' = "idle"
    /\ UNCHANGED aside
    /\ UNCHANGED <<dirs, content, tables, xmlFiles, results, thrown, run, counters, hist>>

Next ==
    \/ processIncomingFiles
    \/ importOnixFile
    \/ Parse
    \/ LogParseError
    \/ FailLog
    \/ FindExistingBook
    \/ WriteBook
    \/ LogBookError
    \/ Finalize
    \/ Move
    \/ CatchLogError
    \/ CatchFailLog
    \/ CatchMove
    \/ processFiles

Spec == Init /\ [][Next]_vars

\* the steps of a call of processIncomingFiles that has listed the inbox:
\* each is the continuation of an awaited call
BatchStep ==
    \/ importOnixFile
    \/ Parse
    \/ LogParseError
    \/ FailLog
    \/ FindExistingBook
    \/ WriteBook
    \/ LogBookError
    \/ Finalize
    \/ Move
    \/ CatchLogError
    \/ CatchFailLog
    \/ CatchMove

\* every awaited database or filesystem call returns or throws, and the
\* event loop then runs the continuation
FairSpec == Spec /\ WF_vars(BatchStep)

\* ------------------------------------------------ concurrent importBook calls
\* Two imports running at the same time (two processFiles mutations): each
\* is inside the record loop of its importOnixFile call, with its own log,
\* and runs importBook(book, importLogId) on one record. Every await of
\* importBook is one step, so the steps of the two calls interleave.
Workers == {"w1", "w2"}

\* the log of the importOnixFile call each worker is in
LogOf(w) == IF w = "w1" THEN 1 ELSE 2

\* the records the concurrent calls import: every combination of the three identifiers
WorkerBooks ==
    { ParsedBook(ref, i13, i10, "t1", None) :
        ref \in {None, "r1"}, i13 \in {None, "x"}, i10 \in {None, "y"} }

\* the catalogs they start from
WorkerCatalogs ==
    { <<>>,
      <<Row("y", "r1", "t0", "a0"), Row("x", "r2", "t0", "a0")>>,
      <<Row("z", "r1", "t0", "a0"), Row("y", "r3", "t0", "a0")>> }

\* locals of one importBook call; seen, before and after are history: the
\* catalog at the lookup and around the write
ImportBookCall(b, importLogId) ==
    [pc |-> "findExistingBook", book |-> b, importLogId |-> importLogId,
     existingBook |-> 0, result |-> None,
     lookupThrew |-> FALSE, seen |-> <<>>, before |-> <<>>, after |-> <<>>]

ConcurrentInit ==
    /\ incoming = {}
    /\ processed = {}
    /\ failed = {}
    /\ content \in [XmlFiles -> {BadXml}]
    /\ books \in WorkerCatalogs
    /\ importLogs = <<NewLog("a.xml"), NewLog("B.XML")>>
    /\ importErrors = <<>>
    /\ pc = "loop"
    /\ xmlFiles = <<>>
    /\ results = <<>>
    /\ thrown = None
    /\ run = NoRun
    /\ summary = None
    /\ faults = 0
    /\ batches = 0
    /\ hist = <<>>
    /\ \E b1, b2 \in WorkerBooks :
          workers = [w \in Workers |->
                       ImportBookCall(IF w = "w1" THEN b1 ELSE b2, LogOf(w))]
    /\ product = None
    /\ parsed = None
    /\ NoExtract /\ NoFiles /\ NoCredits

\* what a step of a concurrent importBook call leaves alone
ImportBookFrame ==
    UNCHANGED <<dirs, content, importLogs, pc, xmlFiles, results, thrown, run,
                summary, batches, hist, product, parsed, nodes, extracted,
                parsedFile, users, creditUsage, ops, rowLock>>

\* importBook of worker w, first await: findExistingBook
ConcurrentFindExistingBook(w) ==
    LET c == workers[w] IN
    /\ c.pc = "findExistingBook"
    /\ \E t \in (IF HasIdentity(c.book) THEN Throws ELSE {FALSE}) :
         /\ Fault(t)
         /\ \E id \in findExistingBook(c.book.isbn13, c.book.isbn10,
                                       c.book.recordReference, t) :
              workers' = [workers EXCEPT ![w] =
                            [c EXCEPT !.pc = "writeBook", !.existingBook = id,
                                      !.lookupThrew = t, !.seen = books]]
    /\ UNCHANGED <<books, importErrors>>
    /\ ImportBookFrame

\* importBook of worker w, second await: db.update(books) or db.insert(books)
ConcurrentWriteBook(w) ==
    LET c == workers[w] IN
    /\ c.pc = "writeBook"
    /\ \E t \in Throws :
         /\ Fault(t)
         /\ IF t
            THEN /\ workers' = [workers EXCEPT ![w] = [c EXCEPT !.pc = "logBookError"]]
                 /\ UNCHANGED books
            ELSE /\ books' = Upsert(books, c.existingBook, bookData(c.book))
                 /\ workers' = [workers EXCEPT ![w] =
                        [c EXCEPT !.pc = "returned",
                                  !.result = importBookOk(c.existingBook),
                                  !.before = books, !.after = books']]
    /\ UNCHANGED importErrors
    /\ ImportBookFrame

\* importBook of worker w, catch block: db.insert(importErrors); when that
\* insert throws, importBook throws
ConcurrentLogBookError(w) ==
    LET c == workers[w] IN
    /\ c.pc = "logBookError"
    /\ \E t \in Throws :
         /\ Fault(t)
         /\ IF t
            THEN /\ workers' = [workers EXCEPT ![w] = [c EXCEPT !.pc = "threw"]]
                 /\ UNCHANGED importErrors
            ELSE /\ importErrors' = Append(importErrors,
                        NewError(c.importLogId, "database_error",
                                 Or(c.book.isbn13, Or(c.book.isbn10, c.book.recordReference)),
                                 DbError))
                 /\ workers' = [workers EXCEPT ![w] =
                        [c EXCEPT !.pc = "returned", !.result = importBookFailed(DbError)]]
    /\ UNCHANGED books
    /\ ImportBookFrame

ConcurrentNext ==
    \E w \in Workers :
       \/ ConcurrentFindExistingBook(w)
       \/ ConcurrentWriteBook(w)
       \/ ConcurrentLogBookError(w)

ConcurrentSpec == ConcurrentInit /\ [][ConcurrentNext]_vars

\* ------------------------------------------------------------ parseProduct
\* A Product node as xml2js hands it over (explicitArray: false): here a
\* function from the paths of its text elements to their text, a path being
\* the tags from the Product node down. An absent element is the empty
\* function.
Absent == [q \in {} |-> None]

\* obj[tag]: the element under a tag, Absent when there is none
Child(obj, tag) ==
    LET S == { q \in DOMAIN obj : Len(q) > 0 /\ q[1] = tag } IN
    [q \in { Tail(x) : x \in S } |-> obj[<<tag>> \o q]]

\* JavaScript truthiness of an element: present and not the empty string
Present_(e) == DOMAIN e # {} /\ ~(<<>> \in DOMAIN e /\ e[<<>>] = "")

\* JavaScript a || b on elements
OrElse(a, b) == IF Present_(a) THEN a ELSE b

\* the entries of ONIX_TAG_MAP for the short tags of the fields modelled
ONIX_TAG_MAP ==
    [t \in {"a001", "b221", "b244", "b030", "b031", "b203", "b035", "b036",
            "b012", "b079", "b081"} |->
       CASE t = "a001" -> "RecordReference"
         [] t = "b221" -> "ProductIDType"
         [] t = "b244" -> "IDValue"
         [] t = "b030" -> "TitlePrefix"
         [] t = "b031" -> "TitleWithoutPrefix"
         [] t = "b203" -> "TitleWithoutPrefix"
         [] t = "b035" -> "ContributorRole"
         [] t = "b036" -> "PersonName"
         [] t = "b012" -> "ProductForm"
         [] t = "b079" -> "ImprintName"
         [] t = "b081" -> "PublisherName"]

\* the reference tags of the fields modelled, and key.toLowerCase() of each
ReferenceTagNames ==
    {"RecordReference", "ProductIdentifier", "ProductIDType", "IDValue",
     "DescriptiveDetail", "TitleDetail", "TitleElement", "TitlePrefix",
     "TitleWithoutPrefix", "Contributor", "ContributorRole", "PersonName",
     "ProductForm", "PublishingDetail", "Publisher", "PublisherName",
     "Imprint", "ImprintName"}

toLowerCase(key) ==
    CASE key = "RecordReference" -> "recordreference"
      [] key = "ProductIdentifier" -> "productidentifier"
      [] key = "ProductIDType" -> "productidtype"
      [] key = "IDValue" -> "idvalue"
      [] key = "DescriptiveDetail" -> "descriptivedetail"
      [] key = "TitleDetail" -> "titledetail"
      [] key = "TitleElement" -> "titleelement"
      [] key = "TitlePrefix" -> "titleprefix"
      [] key = "TitleWithoutPrefix" -> "titlewithoutprefix"
      [] key = "Contributor" -> "contributor"
      [] key = "ContributorRole" -> "contributorrole"
      [] key = "PersonName" -> "personname"
      [] key = "ProductForm" -> "productform"
      [] key = "PublishingDetail" -> "publishingdetail"
      [] key = "Publisher" -> "publisher"
      [] key = "PublisherName" -> "publishername"
      [] key = "Imprint" -> "imprint"
      [] key = "ImprintName" -> "imprintname"
      [] OTHER -> key

\* the key normalizeXmlObject gives a key: the mapped reference tag when the
\* lower-cased key is a short tag of the map, the key itself otherwise
NormalizedKey(key) ==
    IF toLowerCase(key) \in DOMAIN ONIX_TAG_MAP THEN ONIX_TAG_MAP[toLowerCase(key)]
    ELSE key

\* normalizeXmlObject: every key at every level is replaced by NormalizedKey
normalizeXmlObject(obj) ==
    LET NormalizedPath(q) == [k \in DOMAIN q |-> NormalizedKey(q[k])] IN
    [q \in { NormalizedPath(x) : x \in DOMAIN obj } |->
       obj[CHOOSE x \in DOMAIN obj : NormalizedPath(x) = q]]

RECURSIVE extractText(_)
\* extractText: the text of a text element, undefined for a missing one; for
\* an element with children the text of its first child
extractText(element) ==
    IF ~Present_(element) THEN None
    ELSE IF <<>> \in DOMAIN element THEN element[<<>>]
    ELSE extractText(Child(element, (CHOOSE q \in DOMAIN element : TRUE)[1]))

\* extractISBN on one ProductIdentifier
extractISBN(identifier) ==
    LET idType == extractText(OrElse(Child(identifier, "ProductIDType"),
                                     Child(identifier, "b221")))
        idValue == extractText(OrElse(Child(identifier, "IDValue"),
                                      Child(identifier, "b244")))
    IN  [isbn13 |-> IF Truthy(idValue) /\ idType \in {"03", "15"} THEN idValue ELSE None,
         isbn10 |-> IF Truthy(idValue) /\ idType = "02" THEN idValue ELSE None]

\* extractTitle on the TitleDetail element; a prefix is not modelled
extractTitle(titleDetail) ==
    LET titleElements == OrElse(Child(titleDetail, "TitleElement"),
                                Child(titleDetail, "titleelement"))
        titleWithoutPrefix ==
            extractText(OrElse(Child(titleElements, "TitleWithoutPrefix"),
                               OrElse(Child(titleElements, "b203"),
                                      Child(titleElements, "b031"))))
    IN  IF ~Present_(titleDetail) \/ ~Present_(titleElements) THEN None
        ELSE IF Truthy(titleWithoutPrefix) THEN titleWithoutPrefix ELSE None

\* extractContributors on one Contributor: the primary author
extractContributors(contributor) ==
    LET role == extractText(OrElse(Child(contributor, "ContributorRole"),
                                   Child(contributor, "b035")))
        name == extractText(OrElse(Child(contributor, "PersonName"),
                                   Child(contributor, "b036")))
    IN  IF Present_(contributor) /\ Truthy(name) /\ role = "A01" THEN name ELSE None

\* extractPublishingInfo: publisher and imprint
extractPublishingInfo(publishingDetail) ==
    [publisher |->
        extractText(OrElse(Child(Child(publishingDetail, "Publisher"), "PublisherName"),
                           Child(Child(publishingDetail, "publisher"), "b081"))),
     imprint |->
        extractText(OrElse(Child(Child(publishingDetail, "Imprint"), "ImprintName"),
                           Child(Child(publishingDetail, "imprint"), "b079")))]

\* parseProduct, for the fields modelled
parseProduct(p) ==
    LET normalized == normalizeXmlObject(p)
        isbn == extractISBN(OrElse(Child(normalized, "ProductIdentifier"),
                                   Child(normalized, "productidentifier")))
        publishing == extractPublishingInfo(
                         OrElse(Child(normalized, "PublishingDetail"),
                                Child(normalized, "publishingdetail")))
    IN  [recordReference |-> extractText(Child(normalized, "RecordReference")),
         isbn13 |-> isbn.isbn13,
         isbn10 |-> isbn.isbn10,
         title |-> extractTitle(
                      OrElse(Child(Child(normalized, "DescriptiveDetail"), "TitleDetail"),
                             Child(Child(normalized, "descriptivedetail"), "titledetail"))),
         author |-> extractContributors(
                      OrElse(Child(Child(normalized, "DescriptiveDetail"), "Contributor"),
                             Child(Child(normalized, "descriptivedetail"), "contributor"))),
         publisher |-> publishing.publisher,
         imprint |-> publishing.imprint,
         productForm |-> extractText(
                      OrElse(Child(Child(normalized, "DescriptiveDetail"), "ProductForm"),
                             Child(Child(normalized, "descriptivedetail"), "b012")))]

\* the content of a product: each field has a value or is absent
Products ==
    [recordReference : {None, "r1"}, isbn13 : {None, "x"}, title : {None, "t1"},
     author : {None, "a1"}, publisher : {None, "p1"}, imprint : {None, "i1"},
     productForm : {None, "BC"}]

\* the element tree with the given text elements
Tree(elements) ==
    LET E == { e \in elements : e[2] # None } IN
    [q \in { e[1] : e \in E } |-> (CHOOSE e \in E : e[1] = q)[2]]

\* the product written with reference tags only
ReferenceTags(c) ==
    Tree({ <<<<"RecordReference">>, c.recordReference>>,
           <<<<"ProductIdentifier", "ProductIDType">>,
             IF c.isbn13 = None THEN None ELSE "15">>,
           <<<<"ProductIdentifier", "IDValue">>, c.isbn13>>,
           <<<<"DescriptiveDetail", "ProductForm">>, c.productForm>>,
           <<<<"DescriptiveDetail", "TitleDetail", "TitleElement", "TitleWithoutPrefix">>,
             c.title>>,
           <<<<"DescriptiveDetail", "Contributor", "ContributorRole">>,
             IF c.author = None THEN None ELSE "A01">>,
           <<<<"DescriptiveDetail", "Contributor", "PersonName">>, c.author>>,
           <<<<"PublishingDetail", "Imprint", "ImprintName">>, c.imprint>>,
           <<<<"PublishingDetail", "Publisher", "PublisherName">>, c.publisher>> })

\* the same product written with short tags only
ShortTags(c) ==
    Tree({ <<<<"a001">>, c.recordReference>>,
           <<<<"productidentifier", "b221">>,
             IF c.isbn13 = None THEN None ELSE "15">>,
           <<<<"productidentifier", "b244">>, c.isbn13>>,
           <<<<"descriptivedetail", "b012">>, c.productForm>>,
           <<<<"descriptivedetail", "titledetail", "titleelement", "b031">>, c.title>>,
           <<<<"descriptivedetail", "contributor", "b035">>,
             IF c.author = None THEN None ELSE "A01">>,
           <<<<"descriptivedetail", "contributor", "b036">>, c.author>>,
           <<<<"publishingdetail", "imprint", "b079">>, c.imprint>>,
           <<<<"publishingdetail", "publisher", "b081">>, c.publisher>> })

\* what parseProduct returns for a Product node with no element
EmptyBook == parseProduct(Absent)

ParserInit ==
    /\ incoming = {}
    /\ processed = {}
    /\ failed = {}
    /\ content \in [XmlFiles -> {BadXml}]
    /\ books = <<>>
    /\ importLogs = <<>>
    /\ importErrors = <<>>
    /\ pc = "idle"
    /\ xmlFiles = <<>>
    /\ results = <<>>
    /\ thrown = None
    /\ run = NoRun
    /\ summary = None
    /\ faults = 0
    /\ batches = 0
    /\ hist = <<>>
    /\ workers = <<>>
    /\ product \in Products
    /\ parsed = [done |-> {}, reference |-> EmptyBook, short |-> EmptyBook]
    /\ NoExtract /\ NoFiles /\ NoCredits

\* what a step of the parser on its own leaves alone
ParserFrame ==
    UNCHANGED <<dirs, content, tables, pc, xmlFiles, results, thrown, run,
                summary, counters, hist, workers, product, nodes, extracted,
                parsedFile, users, creditUsage, ops, rowLock>>

\* productList.map(parseProduct) on the product written with reference tags
ParseReferenceTags ==
    /\ "reference" \notin parsed.done
    /\ parsed' = [parsed EXCEPT !.done = @ \cup {"reference"},
                                !.reference = parseProduct(ReferenceTags(product))]
    /\ ParserFrame

\* productList.map(parseProduct) on the product written with short tags
ParseShortTags ==
    /\ "short" \notin parsed.done
    /\ parsed' = [parsed EXCEPT !.done = @ \cup {"short"},
                                !.short = parseProduct(ShortTags(product))]
    /\ ParserFrame

ParserNext ==
    \/ ParseReferenceTags
    \/ ParseShortTags

ParserSpec == ParserInit /\ [][ParserNext]_vars

\* ------------------------------------------- the extract functions on lists
\* repeated elements handed to one extract function
MaxNodes == 2

\* the import pipeline with nothing in the inbox and no call running
ImportAtRest ==
    /\ incoming = {}
    /\ processed = {}
    /\ failed = {}
    /\ content \in [XmlFiles -> {BadXml}]
    /\ books = <<>>
    /\ importLogs = <<>>
    /\ importErrors = <<>>
    /\ pc = "idle"
    /\ xmlFiles = <<>>
    /\ results = <<>>
    /\ thrown = None
    /\ run = NoRun
    /\ summary = None
    /\ faults = 0
    /\ batches = 0
    /\ hist = <<>>
    /\ workers = <<>>

\* the arrays xml2js can deliver for a repeated element: up to MaxNodes nodes
Lists(S) == UNION { [1..n -> S] : n \in 0..MaxNodes }

\* ProductIdentifier nodes: a type code and a value, either can be missing
IdentifierNodes ==
    { Tree({ <<<<"ProductIDType">>, t>>, <<<<"IDValue">>, v>> }) :
        t \in {None, "01", "02", "03", "15"}, v \in {None, "v1", "v2"} }

\* PublishingDate nodes: a role code and a date
DateNodes ==
    { Tree({ <<<<"PublishingDateRole">>, r>>, <<<<"Date">>, d>> }) :
        r \in {None, "01", "02"}, d \in {None, "d1", "d2"} }

\* Extent nodes: a type code and a value
ExtentNodes ==
    { Tree({ <<<<"ExtentType">>, t>>, <<<<"ExtentValue">>, v>> }) :
        t \in {None, "00", "10", "05"}, v \in {None, "320", "abc", "12abc"} }

RECURSIVE extractISBNLoopFirstWins(_, _)
\* extractISBNLoop keeping the first value of each kind
extractISBNLoopFirstWins(productIdentifiers, result) ==
    IF productIdentifiers = <<>> THEN result
    ELSE LET one == extractISBN(Head(productIdentifiers)) IN
         extractISBNLoopFirstWins(Tail(productIdentifiers),
            [isbn13 |-> IF result.isbn13 = None THEN one.isbn13 ELSE result.isbn13,
             isbn10 |-> IF result.isbn10 = None THEN one.isbn10 ELSE result.isbn10])

RECURSIVE extractISBNLoop(_, _)
\* the for loop of extractISBN over the identifiers: a node with a value and
\* a type code 03 or 15 sets isbn13, one with 02 sets isbn10, later nodes
\* overwrite earlier ones
extractISBNLoop(productIdentifiers, result) ==
    IF productIdentifiers = <<>> THEN result
    ELSE LET one == extractISBN(Head(productIdentifiers)) IN
         extractISBNLoop(Tail(productIdentifiers),
            [isbn13 |-> IF one.isbn13 # None THEN one.isbn13 ELSE result.isbn13,
             isbn10 |-> IF one.isbn10 # None THEN one.isbn10 ELSE result.isbn10])

\* the publicationDate of extractPublishingInfo: only the first
\* PublishingDate node is looked at, and only a role code 01 gives its date
extractPublicationDate(publishingDate) ==
    IF publishingDate = <<>> THEN None
    ELSE LET dateElement == publishingDate[1]
             dateRole == extractText(OrElse(Child(dateElement, "PublishingDateRole"),
                                            Child(dateElement, "x448")))
         IN  IF dateRole = "01"
             THEN extractText(OrElse(Child(dateElement, "Date"), Child(dateElement, "b306")))
             ELSE None

\* the characters of the extent values
Chars(text) ==
    CASE text = "320" -> <<"3", "2", "0">>
      [] text = "abc" -> <<"a", "b", "c">>
      [] text = "12abc" -> <<"1", "2", "a", "b", "c">>
      [] OTHER -> <<>>

Digits == {"0", "1", "2", "3", "4", "5", "6", "7", "8", "9"}

DigitValue(c) ==
    CASE c = "0" -> 0 [] c = "1" -> 1 [] c = "2" -> 2 [] c = "3" -> 3 [] c = "4" -> 4
      [] c = "5" -> 5 [] c = "6" -> 6 [] c = "7" -> 7 [] c = "8" -> 8 [] c = "9" -> 9

RECURSIVE LeadingDigits(_, _)
\* the number the leading digits of a text spell
LeadingDigits(chars, n) ==
    IF chars = <<>> \/ Head(chars) \notin Digits THEN n
    ELSE LeadingDigits(Tail(chars), 10 * n + DigitValue(Head(chars)))

\* a JavaScript number | undefined
Undefined == [kind |-> "undefined", value |-> 0]
NaN == [kind |-> "NaN", value |-> 0]
Number(n) == [kind |-> "number", value |-> n]

\* parseInt(text, 10): the leading digits, NaN when the text starts with none
parseInt(text) ==
    LET chars == Chars(text) IN
    IF chars = <<>> \/ Head(chars) \notin Digits THEN NaN
    ELSE Number(LeadingDigits(chars, 0))

\* extractPageCount on the Extent nodes: only the first node is looked at
extractPageCount(extent) ==
    IF extent = <<>> THEN Undefined
    ELSE LET extentElement == extent[1]
             extentType == extractText(OrElse(Child(extentElement, "ExtentType"),
                                              Child(extentElement, "b218")))
             value == extractText(OrElse(Child(extentElement, "ExtentValue"),
                                         Child(extentElement, "b219")))
         IN  IF extentType \in {"00", "10"}
             THEN IF Truthy(value) THEN parseInt(value) ELSE Undefined
             ELSE Undefined

NothingExtracted ==
    [done |-> FALSE, isbn |-> [isbn13 |-> None, isbn10 |-> None],
     publicationDate |-> None, pageCount |-> Undefined]

ExtractInit ==
    /\ ImportAtRest
    /\ product = None
    /\ parsed = None
    /\ nodes \in ([kind : {"ProductIdentifier"}, list : Lists(IdentifierNodes)]
                  \cup [kind : {"PublishingDate"}, list : Lists(DateNodes)]
                  \cup [kind : {"Extent"}, list : Lists(ExtentNodes)])
    /\ extracted = NothingExtracted
    /\ NoFiles /\ NoCredits

\* what an extract function leaves alone
ExtractFrame ==
    UNCHANGED <<dirs, content, tables, pc, xmlFiles, results, thrown, run,
                summary, counters, hist, workers, product, parsed, nodes,
                parsedFile, users, creditUsage, ops, rowLock>>

\* extractISBN(normalized.ProductIdentifier || [])
ExtractISBN ==
    /\ nodes.kind = "ProductIdentifier" /\ ~extracted.done
    /\ extracted' = [extracted EXCEPT !.done = TRUE,
                        !.isbn = extractISBNLoop(nodes.list, [isbn13 |-> None, isbn10 |-> None])]
    /\ ExtractFrame

\* extractPublishingInfo(normalized.PublishingDetail), its publicationDate
ExtractPublishingInfo ==
    /\ nodes.kind = "PublishingDate" /\ ~extracted.done
    /\ extracted' = [extracted EXCEPT !.done = TRUE,
                        !.publicationDate = extractPublicationDate(nodes.list)]
    /\ ExtractFrame

\* extractPageCount(normalized.DescriptiveDetail)
ExtractPageCount ==
    /\ nodes.kind = "Extent" /\ ~extracted.done
    /\ extracted' = [extracted EXCEPT !.done = TRUE,
                        !.pageCount = extractPageCount(nodes.list)]
    /\ ExtractFrame

ExtractNext ==
    \/ ExtractISBN
    \/ ExtractPublishingInfo
    \/ ExtractPageCount

ExtractSpec == ExtractInit /\ [][ExtractNext]_vars

\* ------------------------------------------------- parseOnixFile on a file
\* the root tags parseOnixFile accepts, and one it does not
AcceptedRootTags == {"ONIXMessage", "ONIXmessage", "onixmessage"}
RootTags == AcceptedRootTags \cup {"ONIXMESSAGE"}

\* the Header element: none, a sender name in reference tags, one in short
\* tags, and a short-tag name inside a reference-tag Sender
Headers ==
    { Absent,
      Tree({ <<<<"Sender", "SenderName">>, "s1">> }),
      Tree({ <<<<"sender", "x298">>, "s1">> }),
      Tree({ <<<<"Sender", "x298">>, "s1">> }) }

\* Product elements: an empty one, one with a product form only (no
\* identifier, no reference, no title), and one with identity and title
ProductNodes ==
    { Absent,
      Tree({ <<<<"DescriptiveDetail", "ProductForm">>, "BC">> }),
      Tree({ <<<<"RecordReference">>, "r1">>,
             <<<<"ProductIdentifier", "ProductIDType">>, "15">>,
             <<<<"ProductIdentifier", "IDValue">>, "x">>,
             <<<<"DescriptiveDetail", "TitleDetail", "TitleElement", "TitleWithoutPrefix">>,
               "t1">> }) }

\* a file that cannot be read, one that is not well-formed XML, an empty
\* one, and the documents: a root element with a header and products
NoDocument ==
    [rootTag |-> "ONIXMessage", headerTag |-> "Header", header |-> Absent,
     productTag |-> "Product", products |-> <<>>]

OnixFiles ==
    { [readable |-> FALSE, xml |-> "document", document |-> NoDocument],
      [readable |-> TRUE, xml |-> "malformed", document |-> NoDocument],
      [readable |-> TRUE, xml |-> "empty", document |-> NoDocument] }
    \cup [readable : {TRUE}, xml : {"document"},
          document : [rootTag : RootTags, headerTag : {"Header", "header"},
                      header : Headers, productTag : {"Product", "product"},
                      products : Lists(ProductNodes)]]

NullError == "Cannot read properties of null"
RootNotFound == "Invalid ONIX format: root element not found"
NoProductsFound == "No products found in ONIX file"

\* the outcomes of the body of parseOnixFile
Thrown(message) == [outcome |-> "throw", books |-> <<>>, source |-> None, error |-> message]
Returned_(books_, source, error) ==
    [outcome |-> "return", books |-> books_, source |-> source, error |-> error]
NotParsed == [outcome |-> "none", books |-> <<>>, source |-> None, error |-> None]

\* the try block of parseOnixFile: readFile, parseStringPromise, the root,
\* the header's sender name, the products, productList.map(parseProduct)
parseOnixFileTry(file) ==
    IF ~file.readable THEN Thrown(ReadError)
    ELSE IF file.xml = "malformed" THEN Thrown(XmlError)
    ELSE IF file.xml = "empty" THEN Thrown(NullError)
    ELSE LET d == file.document
             \* an element with no content comes out of xml2js as ''
             root == d.rootTag \in AcceptedRootTags
                       /\ (Present_(d.header) \/ d.products # <<>>)
             source == extractText(OrElse(Child(Child(d.header, "Sender"), "SenderName"),
                                          Child(Child(d.header, "sender"), "x298")))
             products == Len(d.products) > 1
                           \/ (Len(d.products) = 1 /\ Present_(d.products[1]))
         IN  IF ~root THEN Returned_(<<>>, None, RootNotFound)
             ELSE IF ~products THEN Returned_(<<>>, source, NoProductsFound)
             ELSE Returned_([i \in 1..Len(d.products) |-> parseProduct(d.products[i])],
                            source, None)

\* parseOnixFile without its catch
parseOnixFileUncaught(file) == parseOnixFileTry(file)

\* parseOnixFile on a file: the catch turns any exception of the try block
\* into { books: [], error: message }
parseOnixFileCaught(file) ==
    LET r == parseOnixFileTry(file) IN
    IF r.outcome = "throw" THEN Returned_(<<>>, None, r.error) ELSE r

OnixFileInit ==
    /\ ImportAtRest
    /\ product = None
    /\ parsed = None
    /\ NoExtract
    /\ parsedFile \in [file : OnixFiles, result : {NotParsed}]
    /\ NoCredits

OnixFileFrame ==
    UNCHANGED <<dirs, content, tables, pc, xmlFiles, results, thrown, run,
                summary, counters, hist, workers, product, parsed, nodes,
                extracted, users, creditUsage, ops, rowLock>>

\* await parseOnixFile(filepath)
ParseOnixFile ==
    /\ parsedFile.result = NotParsed
    /\ parsedFile' = [parsedFile EXCEPT !.result = parseOnixFileCaught(parsedFile.file)]
    /\ OnixFileFrame

OnixFileNext == ParseOnixFile

OnixFileSpec == OnixFileInit /\ [][OnixFileNext]_vars

\* ------------------------------------------------------------ the credits
\* 1 credit = 1000 tokens
TokensPerCredit == 1000

\* the largest creditQuota a user starts with
MaxQuota == 2

\* the callers running an AI operation for the same user
Callers == {"c1", "c2"}
UserId == 1

\* completion.usage.total_tokens of a completion
Tokens == {0, 1, TokensPerCredit, TokensPerCredit + 1}

\* calculateCreditsFromTokens: Math.ceil(tokensUsed / 1000)
calculateCreditsFromTokens(tokensUsed) ==
    (tokensUsed + TokensPerCredit - 1) \div TokensPerCredit

\* checkUserCredits on the committed user row
checkUserCredits(userId, creditsRequired) ==
    LET user == users[userId]
        creditsRemaining == user.creditQuota - user.creditsUsed
    IN  creditsRemaining >= creditsRequired

\* an AI operation that has not started
NotStarted ==
    [pc |-> "start", apiCalled |-> FALSE, tokensUsed |-> 0, creditsDeducted |-> 0,
     hasCredits |-> FALSE, user |-> [creditQuota |-> 0, creditsUsed |-> 0],
     wrote |-> FALSE]

CreditInit ==
    /\ ImportAtRest
    /\ product = None
    /\ parsed = None
    /\ NoExtract /\ NoFiles
    /\ \E quota \in 1..MaxQuota :
          users = [u \in {UserId} |-> [creditQuota |-> quota, creditsUsed |-> 0]]
    /\ creditUsage = <<>>
    /\ ops = [c \in Callers |-> NotStarted]
    /\ rowLock = None

CreditFrame ==
    UNCHANGED <<dirs, content, tables, pc, xmlFiles, results, thrown, run,
                summary, counters, hist, workers, product, parsed, nodes,
                extracted, parsedFile>>

\* fetchDailyUKEvents: await openai.chat.completions.create(...), the first
\* await of the operation; the completion reports the tokens it used
OpenAICall(c) ==
    /\ ops[c].pc = "start"
    /\ \E tokens \in Tokens :
          ops' = [ops EXCEPT ![c].pc = "called", ![c].apiCalled = TRUE,
                             ![c].tokensUsed = tokens,
                             ![c].creditsDeducted = calculateCreditsFromTokens(tokens)]
    /\ UNCHANGED <<users, creditUsage, rowLock>>
    /\ CreditFrame

\* deductCredits: const hasCredits = await checkUserCredits(...)
CheckUserCredits(c) ==
    /\ ops[c].pc = "called"
    /\ ops' = [ops EXCEPT ![c].pc = "checked",
                          ![c].hasCredits = checkUserCredits(UserId, ops[c].creditsDeducted)]
    /\ UNCHANGED <<users, creditUsage, rowLock>>
    /\ CreditFrame

\* deductCredits: not enough credits: getUserCreditBalance, throw FORBIDDEN
Blocked(c) ==
    /\ ops[c].pc = "checked" /\ ~ops[c].hasCredits
    /\ ops' = [ops EXCEPT ![c].pc = "blocked"]
    /\ UNCHANGED <<users, creditUsage, rowLock>>
    /\ CreditFrame

\* db.transaction: tx.query.users.findFirst, a plain read of the committed row
TxRead(c) ==
    /\ ops[c].pc = "checked" /\ ops[c].hasCredits
    /\ ops' = [ops EXCEPT ![c].pc = "read", ![c].user = users[UserId]]
    /\ UNCHANGED <<users, creditUsage, rowLock>>
    /\ CreditFrame

\* db.transaction: tx.update(users).set({ creditsUsed: user.creditsUsed +
\* creditsDeducted }): waits for the row lock, then writes the value computed
\* from the row as it was read
TxUpdate(c) ==
    /\ ops[c].pc = "read"
    /\ rowLock = None
    /\ rowLock' = c
    /\ ops' = [ops EXCEPT ![c].pc = "updated", ![c].wrote = TRUE]
    /\ UNCHANGED <<users, creditUsage>>
    /\ CreditFrame

\* db.transaction: tx.insert(creditUsage) and the commit, which makes the
\* update and the row visible and releases the row lock
TxInsert(c) ==
    /\ ops[c].pc = "updated"
    /\ rowLock = c
    /\ users' = [users EXCEPT ![UserId].creditsUsed =
                    ops[c].user.creditsUsed + ops[c].creditsDeducted]
    /\ creditUsage' = Append(creditUsage,
                         [userId |-> UserId, operation |-> "daily_events",
                          tokensUsed |-> ops[c].tokensUsed,
                          creditsDeducted |-> ops[c].creditsDeducted])
    /\ rowLock' = None
    /\ ops' = [ops EXCEPT ![c].pc = "done"]
    /\ CreditFrame

CreditNext ==
    \E c \in Callers :
       \/ OpenAICall(c)
       \/ CheckUserCredits(c)
       \/ Blocked(c)
       \/ TxRead(c)
       \/ TxUpdate(c)
       \/ TxInsert(c)

CreditSpec == CreditInit /\ [][CreditNext]_vars

\* ================================================================ properties
Terminal == {"completed", "failed"}
LoopPcs == {"findExistingBook", "writeBook", "logBookError"}
CatchPcs == {"catchLogError", "catchFailLog", "catchMove"}

\* the calls of importOnixFile that ended, as a set of history entries
Calls == { hist[k] : k \in DOMAIN hist }
Returned == { h \in Calls : h.path # "threw" }

\* the import_error rows of one log
ErrorsOf(importLogId) ==
    SelectSeq(importErrors, LAMBDA e : e.importLogId = importLogId)

Count_(seq, v) == Len(SelectSeq(seq, LAMBDA x : x = v))

\* C1: a record whose lookup or catalog write fails never aborts the file.
\* While the loop runs every earlier record has an outcome; an exception of
\* the lookup or of the catalog write never reaches the catch block of
\* importOnixFile; when the loop is left every one of the N parsed records
\* was looked up and upserted, and the finalization writes totalBooks = N.
C1_RecordFailureIsolated ==
    /\ run.pc \in LoopPcs =>
          /\ Len(run.outcomes) = run.i - 1
          /\ run.i <= Len(run.parsedBooks)
    /\ run.pc \in CatchPcs => run.raisedAt \notin {"findExistingBook", "writeBook"}
    /\ run.pc \in {"finalize", "move"} =>
          /\ run.lookups = Len(content[run.filename].products)
          /\ run.writes = Len(content[run.filename].products)
          /\ Len(run.outcomes) = Len(content[run.filename].products)
    /\ run.pc = "move" =>
          importLogs[run.importLogId].totalBooks = Len(content[run.filename].products)

\* C1 witness: the first of two records failed to persist, the second was
\* still imported, and the log was finalized with totalBooks = 2
C1_Witness ==
    /\ run.pc = "move"
    /\ run.outcomes = <<"error", "ok">>
    /\ importLogs[run.importLogId].totalBooks = 2

\* C2: the normal finalization writes `completed` unless every record
\* failed, and then `failed`; so the log is `completed` iff at least one
\* record was imported; and every result importOnixFile returns has
\* success = TRUE iff the status of its log is `completed`.
C2_StatusByOutcome ==
    /\ run.pc = "move" =>
          LET status == importLogs[run.importLogId].status IN
          /\ status \in Terminal
          /\ status = "failed" <=> \A k \in DOMAIN run.outcomes : run.outcomes[k] = "error"
          /\ status = "completed" <=> \E k \in DOMAIN run.outcomes : run.outcomes[k] = "ok"
    /\ \A h \in Returned :
          /\ h.result.success <=> importLogs[h.importLogId].status = "completed"
          /\ h.path = "normal" =>
                (h.result.success <=> \E k \in DOMAIN h.outcomes : h.outcomes[k] = "ok")

\* C2 witness: a file with one record imported and one failed was finalized
\* as completed and reported as a success
C2_Witness ==
    \E h \in Returned :
       /\ h.path = "normal"
       /\ Count_(h.outcomes, "ok") = 1 /\ Count_(h.outcomes, "error") = 1
       /\ importLogs[h.importLogId].status = "completed"
       /\ h.result.success

\* C3: when the parser reports a file-level error no per-book step runs and
\* the catalog is untouched; the call that returns from the parse-error
\* branch leaves exactly one ImportError for its log, of type parse_error,
\* the log failed with errorCount = 1, and returns success = FALSE, zero
\* total / imported / skipped, errorCount = 1 and the parse error as the
\* only entry of errors.
C3_ParseErrorBranch ==
    /\ Truthy(run.parseError) =>
          /\ books = run.booksBefore
          /\ run.lookups = 0 /\ run.writes = 0
    /\ \A h \in Calls : h.path = "parseError" =>
          LET errs == ErrorsOf(h.importLogId)
              log == importLogs[h.importLogId] IN
          /\ Len(errs) = 1
          /\ errs[1].errorType = "parse_error"
          /\ log.status = "failed" /\ log.errorCount = 1
          /\ h.booksAfter = h.booksBefore
          /\ h.lookups = 0 /\ h.writes = 0
          /\ h.result.success = FALSE
          /\ h.result.totalBooks = 0 /\ h.result.importedBooks = 0
          /\ h.result.skippedBooks = 0 /\ h.result.errorCount = 1
          /\ h.result.errors = <<errs[1].errorMessage>>
          /\ h.result.errors[1] \in {XmlError, ReadError}

\* C3 witness: a call returned from the parse-error branch
C3_Witness ==
    \E h \in Calls : h.path = "parseError" /\ h.content = BadXml

\* C4 (as claimed): every call of importOnixFile that returned has taken
\* its file out of imports/incoming, whatever the outcome.
C4_FileLeavesIncoming ==
    \A h \in Returned : h.filename \notin incoming

\* C5 (as claimed): after a call returned, the file is in imports/failed
\* when its log is failed and in imports/processed when it is completed.
C5_LocationMatchesStatus ==
    \A h \in Returned :
       /\ importLogs[h.importLogId].status = "failed" => h.filename \in failed
       /\ importLogs[h.importLogId].status = "completed" => h.filename \in processed

\* two calls in a row that imported the same content, both through the
\* normal path and with no call that threw
SameFileTwice(k) ==
    /\ k \in DOMAIN hist /\ k + 1 \in DOMAIN hist
    /\ hist[k].content = hist[k + 1].content
    /\ hist[k].path = "normal" /\ hist[k + 1].path = "normal"
    /\ hist[k].faults = 0 /\ hist[k + 1].faults = 0

\* C6 (as claimed): importedBooks counts new rows only, so the second of
\* two imports of the same file, every record with an identity and nothing
\* failing, reports importedBooks = 0.
C6_ReimportImportsNothing ==
    \A k \in DOMAIN hist :
       (/\ SameFileTwice(k)
        /\ \A n \in DOMAIN hist[k].content.products :
              HasIdentity(hist[k].content.products[n]))
       => hist[k + 1].result.importedBooks = 0

\* the rows of a catalog that the identity of a record matches
Present(catalog, b) ==
    { id \in DOMAIN catalog :
        HasIdentity(b) /\ Matches(catalog[id], b.isbn13, b.isbn10, b.recordReference) }

\* the last catalog write of the call in progress was an update in place, or
\* the insert of a record that no row matched when it was looked up
LastWriteInPlace ==
    LET w == run.lastWrite IN
    /\ w.kind = "update" =>
          /\ Len(books) = Len(w.before)
          /\ w.id \in Present(w.before, w.book)
          /\ \A id \in DOMAIN books : id # w.id => books[id] = w.before[id]
          /\ books[w.id].title = Or(w.book.title, "Untitled")
          /\ books[w.id].author = Or(w.book.author, "Unknown")
          /\ books[w.id].isbn =
                IF HasIsbn(w.book) THEN Or(w.book.isbn13, w.book.isbn10)
                ELSE w.before[w.id].isbn
          /\ books[w.id].externalId =
                IF Truthy(w.book.recordReference) THEN w.book.recordReference
                ELSE w.before[w.id].externalId
    /\ w.kind = "insert" =>
          /\ Len(books) = Len(w.before) + 1
          /\ \A id \in DOMAIN w.before : books[id] = w.before[id]
          /\ Present(w.before, w.book) = {} \/ w.lookupThrew

OutsideTry == {"readdir", "insertLog", "catch insertError", "catch updateLog"}

\* C8 (as claimed): processIncomingFiles throws only when listing the
\* inbox fails, and otherwise returns one result per listed XML file.
C8_ThrowsOnlyOnListing ==
    pc = "done" =>
       /\ thrown # None => thrown = "readdir"
       /\ thrown = None => Len(results) = Len(xmlFiles)

\* C8 (amended): processIncomingFiles throws only when listing the inbox
\* fails, when the insert of a file's ImportLog fails, or when a write of
\* the catch block of importOnixFile (the system_error row, the failed
\* status) fails; a failure inside the try block (parse, catalog write,
\* ImportError or ImportLog write, file move) is caught, and when nothing
\* is thrown the list holds one result per listed XML file, in order.
C8_ThrowsOnlyOutsideTry ==
    pc = "done" =>
       /\ thrown \in {None} \cup OutsideTry
       /\ thrown = None =>
             /\ Len(results) = Len(xmlFiles)
             /\ \A k \in DOMAIN results :
                   importLogs[results[k].importLogId].filename = xmlFiles[k]

\* C8 witness: a batch of two files returned two results although a call
\* inside the try block of one of them threw
C8_Witness ==
    /\ pc = "done" /\ thrown = None
    /\ Len(results) = 2
    /\ \E h \in Calls : h.path = "caught" /\ h.importLogId = results[1].importLogId

\* C9 (as claimed): when a batch that listed the inbox has ended, it has
\* returned, every listed XML file has a log in a terminal status and no
\* log is left in `processing`.
C9_EveryFileTerminalLog ==
    (pc = "done" /\ thrown # "readdir") =>
       /\ thrown = None
       /\ \A k \in DOMAIN xmlFiles :
             \E id \in DOMAIN importLogs :
                /\ importLogs[id].filename = xmlFiles[k]
                /\ importLogs[id].status \in Terminal
       /\ \A id \in DOMAIN importLogs : importLogs[id].status # "processing"

\* every call that returned left its log in a terminal status; a log is in
\* `processing` only while its call runs or when its call threw out of the
\* catch block
TerminalUnlessThrown ==
    /\ \A h \in Returned : importLogs[h.importLogId].status \in Terminal
    /\ \A id \in DOMAIN importLogs :
          importLogs[id].status = "processing" =>
             \/ run.pc # "none" /\ run.importLogId = id
             \/ \E h \in Calls : h.importLogId = id /\ h.path = "threw"
    /\ (pc = "done" /\ thrown = None) =>
          \A k \in DOMAIN xmlFiles :
             importLogs[results[k].importLogId].status \in Terminal

\* C9 (amended): when every awaited call returns or throws, a batch that
\* has listed the inbox always ends, by returning or by throwing; every
\* file whose call returned has a log in a terminal status, and a log is
\* left in `processing` only when a write of the catch block threw.
C9_BatchEnds ==
    /\ []TerminalUnlessThrown
    /\ (pc = "loop") ~> (pc = "done")

\* C9 witness: a batch of two files ended with both logs terminal after an
\* exception was caught in one of the calls
C9_Witness ==
    /\ pc = "done" /\ thrown = None /\ Len(results) = 2
    /\ \E h \in Calls : h.path = "caught"
    /\ \A k \in DOMAIN results : importLogs[results[k].importLogId].status \in Terminal

\* C10 (as claimed): once a log's status is completed or failed it never
\* changes again.
C10_TerminalStatusStable ==
    [][\A id \in DOMAIN importLogs :
          importLogs[id].status \in Terminal =>
             importLogs'[id].status = importLogs[id].status]_vars

\* C11 (as claimed): completedAt of a log is unset while the log is
\* `processing`, and it is written once: no update writes it a second time.
C11_CompletedAtWrittenOnce ==
    \A id \in DOMAIN importLogs :
       /\ importLogs[id].status = "processing" =>
             /\ importLogs[id].completedAt = None
             /\ importLogs[id].completedAtWrites = 0
       /\ importLogs[id].completedAtWrites <= 1

\* the rows of one type among the import_error rows of one log
ErrorsOfType(importLogId, errorType) ==
    SelectSeq(ErrorsOf(importLogId), LAMBDA e : e.errorType = errorType)

\* the steps inside the try block of importOnixFile whose exception reaches its catch
TrySteps == {"logParseError", "failLog", "logBookError", "finalize", "move"}

C13_LookupFailureIsError ==
    run.lastWrite.lookupThrew =>
       /\ run.lastWrite.kind = "none"
       /\ run.pc \in {"findExistingBook", "finalize", "move"} =>
             run.outcomes[Len(run.outcomes)] = "error"

\* the records of a file that have none of the three identifiers
NoIdentityRecords(c) ==
    SelectSeq(c.products, LAMBDA b : ~HasIdentity(b))

\* C15: a record with none of isbn13, isbn10 and recordReference is never
\* looked up and never updates a row: its write appends one row, with no
\* isbn and no external id, title 'Untitled' and author 'Unknown' when the
\* record has none, and leaves every other row as it was; every import of a
\* file in which nothing fails adds at least one row per such record, so
\* importing the file again adds that many rows again.
C15_NoIdentityAlwaysNew ==
    /\ (run.pc = "writeBook" /\ ~HasIdentity(book)) =>
          /\ run.existingBook = 0
          /\ ~run.lastWrite.lookupThrew
    /\ LET w == run.lastWrite IN
       (w.kind # "none" /\ ~HasIdentity(w.book)) =>
          /\ w.kind = "insert"
          /\ Len(books) = Len(w.before) + 1
          /\ \A id \in DOMAIN w.before : books[id] = w.before[id]
          /\ books[Len(books)] =
                Row(None, None,
                    IF Truthy(w.book.title) THEN w.book.title ELSE "Untitled",
                    IF Truthy(w.book.author) THEN w.book.author ELSE "Unknown")
    /\ \A h \in Calls : (h.path = "normal" /\ h.faults = 0) =>
          Len(h.booksAfter) >= Len(h.booksBefore) + Len(NoIdentityRecords(h.content))

\* C15 witness: the file with one identified and one identity-less record
\* was imported twice in a row; the second import updated the first record's
\* row and added one more row for the identity-less record
C15_Witness ==
    \E k \in DOMAIN hist :
       /\ SameFileTwice(k)
       /\ hist[k].content = Onix(<<BookA, BookN>>)
       /\ Len(hist[k + 1].booksAfter) = Len(hist[k + 1].booksBefore) + 1
       /\ Len(hist[k + 1].booksAfter) >= Len(hist[k].booksBefore) + 2

\* C16: at the normal finalization every parsed record is counted once:
\* totalBooks is the number of Product nodes of the file and imported +
\* skipped + errors = totalBooks, in the log and in the result. Starting
\* from an empty catalog, a file of N >= 2 records of which exactly one
\* failed to persist gives importedBooks = N - 1, errorCount = 1 and
\* status completed; a file imported with no failure gives importedBooks =
\* N, skippedBooks = 0, errorCount = 0, status completed and no
\* ImportError row for its log.
C16_EveryRecordCounted ==
    /\ run.pc = "move" =>
          LET log == importLogs[run.importLogId] IN
          /\ log.totalBooks = Len(content[run.filename].products)
          /\ log.importedBooks + log.skippedBooks + log.errorCount = log.totalBooks
    /\ \A h \in Calls : h.path = "normal" =>
          LET r == h.result
              N == Len(h.content.products)
              log == importLogs[h.importLogId] IN
          /\ r.totalBooks = N
          /\ r.importedBooks + r.skippedBooks + r.errorCount = N
          /\ log.totalBooks = N
          /\ log.importedBooks + log.skippedBooks + log.errorCount = N
          /\ r.errorCount = Count_(h.outcomes, "error")
          /\ Len(ErrorsOfType(h.importLogId, "database_error")) = r.errorCount
          /\ (h.booksBefore = <<>> /\ N >= 2 /\ Count_(h.outcomes, "error") = 1) =>
                /\ r.importedBooks = N - 1 /\ r.errorCount = 1
                /\ log.status = "completed" /\ r.success
          /\ (h.booksBefore = <<>> /\ h.faults = 0) =>
                /\ r.importedBooks = N /\ r.skippedBooks = 0 /\ r.errorCount = 0
                /\ log.status = "completed"
                /\ ErrorsOf(h.importLogId) = <<>>

\* C16 witness: a two-record file imported into an empty catalog, one record
\* failed to persist: one imported, one error, completed
C16_Witness ==
    \E h \in Calls :
       /\ h.path = "normal" /\ h.booksBefore = <<>>
       /\ Len(h.content.products) = 2
       /\ Count_(h.outcomes, "error") = 1
       /\ h.result.importedBooks = 1 /\ h.result.errorCount = 1
       /\ importLogs[h.importLogId].status = "completed"

\* the names of a list
Range(l) == { l[k] : k \in DOMAIN l }

\* Filter keeps the names with an XML extension, in the order of the listing
FilterKeepsOrder ==
    \A l \in Listings(Files) :
       LET x == Filter(l) IN
       /\ Range(x) = XmlFiles
       /\ Len(x) = Cardinality(XmlFiles)
       /\ \A a, b \in DOMAIN x : a < b =>
             \E c, d \in DOMAIN l : c < d /\ l[c] = x[a] /\ l[d] = x[b]

\* C17: processIncomingFiles imports exactly the entries of the inbox whose
\* name ends in .xml in any case, in the order of the listing and one at a
\* time: the call for a file starts after the calls for the files before it
\* have returned and left their logs terminal; the result list follows the
\* same order; an entry with another extension gets no log and stays in
\* the inbox.
C17_XmlFilesInOrder ==
    /\ FilterKeepsOrder
    /\ (pc = "loop" \/ (pc = "done" /\ thrown # "readdir")) =>
          /\ \A k \in DOMAIN xmlFiles : xmlFiles[k] \in XmlFiles
          /\ \A a, b \in DOMAIN xmlFiles : a # b => xmlFiles[a] # xmlFiles[b]
          /\ \A f \in XmlFiles \cap incoming : f \in Range(xmlFiles)
          /\ Len(results) <= Len(xmlFiles)
          /\ \A k \in DOMAIN results :
                importLogs[results[k].importLogId].filename = xmlFiles[k]
          /\ \A a, b \in DOMAIN results :
                a < b => results[a].importLogId < results[b].importLogId
          /\ (pc = "done" /\ thrown = None) => Len(results) = Len(xmlFiles)
    /\ run.pc # "none" =>
          /\ pc = "loop"
          /\ run.filename = xmlFiles[Len(results) + 1]
          /\ run.importLogId = Len(importLogs)
          /\ \A k \in DOMAIN results :
                /\ results[k].importLogId < run.importLogId
                /\ importLogs[results[k].importLogId].status \in Terminal
    /\ \A id \in DOMAIN importLogs : importLogs[id].filename \in XmlFiles
    /\ OtherFiles \subseteq incoming

\* C17 witness: the listing had B.XML before a.xml; both were imported in
\* that order and the text file is still in the inbox
C17_Witness ==
    /\ pc = "done" /\ thrown = None
    /\ xmlFiles = <<"B.XML", "a.xml">>
    /\ Len(results) = 2
    /\ importLogs[results[1].importLogId].filename = "B.XML"
    /\ importLogs[results[2].importLogId].filename = "a.xml"
    /\ "notes.txt" \in incoming

\* C18: the import_error table is append-only: a step never changes or
\* removes a row and adds at most one; a row is added only on a failure
\* path (the parser reported an error, a catalog write threw, or an
\* exception reached the top-level catch), and it carries the id of the log
\* of the call that adds it.
C18_ErrorsAppendOnly ==
    [][/\ Len(importErrors') \in {Len(importErrors), Len(importErrors) + 1}
       /\ \A k \in DOMAIN importErrors : importErrors'[k] = importErrors[k]
       /\ Len(importErrors') = Len(importErrors) + 1 =>
             LET e == importErrors'[Len(importErrors')] IN
             /\ e.importLogId = run.importLogId
             /\ run.importLogId \in DOMAIN importLogs
             /\ importLogs[run.importLogId].filename = run.filename
             /\ \/ /\ e.errorType = "parse_error"
                   /\ run.pc = "logParseError" /\ Truthy(run.parseError)
                   /\ e.errorMessage = run.parseError
                \/ /\ e.errorType = "database_error"
                   /\ run.pc = "logBookError" /\ run.error = DbError
                \/ /\ e.errorType = "system_error"
                   /\ run.pc = "catchLogError" /\ run.raisedAt \in TrySteps]_vars

\* C18 witness: two calls each left an error row, one for a parse error and
\* one for a record that failed to persist, each linked to its own log
C18_Witness ==
    /\ Len(importErrors) = 2
    /\ importErrors[1].importLogId # importErrors[2].importLogId
    /\ {importErrors[1].errorType, importErrors[2].errorType} =
          {"parse_error", "database_error"}
    /\ run.pc = "none"

\* the importBook calls of the concurrent imports that wrote the catalog
Wrote == { w \in Workers : workers[w].pc = "returned" /\ workers[w].result.success }

\* C14: the lookup compares isbn13, when the record has one, with the
\* stored isbn; otherwise isbn10, when it has one, with the stored isbn;
\* otherwise the recordReference with external_id; a record with none of
\* them is not looked up. The row the lookup returns matches on that one
\* key, and it returns no row only when no row matches on it. An inserted
\* row stores isbn13 as its isbn when the record has one, else isbn10, and
\* the recordReference as its external_id.
C14_IdentityPriority ==
    \A w \in Workers :
       LET c == workers[w]
           b == c.book
           id == c.existingBook
           key == IF Truthy(b.isbn13) THEN "isbn13"
                  ELSE IF Truthy(b.isbn10) THEN "isbn10"
                  ELSE IF Truthy(b.recordReference) THEN "recordReference"
                  ELSE "none"
           hit(row) == CASE key = "isbn13" -> row.isbn = b.isbn13
                         [] key = "isbn10" -> row.isbn = b.isbn10
                         [] key = "recordReference" -> row.externalId = b.recordReference
                         [] OTHER -> FALSE
       IN
       /\ (c.pc # "findExistingBook" /\ ~c.lookupThrew) =>
             /\ id # 0 => id \in DOMAIN c.seen /\ hit(c.seen[id])
             /\ id = 0 => \A r \in DOMAIN c.seen : ~hit(c.seen[r])
       /\ (w \in Wrote /\ id = 0) =>
             LET row == c.after[Len(c.after)] IN
             /\ Len(c.after) = Len(c.before) + 1
             /\ row.isbn = (IF Truthy(b.isbn13) THEN b.isbn13
                            ELSE IF Truthy(b.isbn10) THEN b.isbn10 ELSE None)
             /\ row.externalId = b.recordReference

\* C14 witness: a record with an ISBN-13, an ISBN-10 and a reference was
\* looked up in a catalog where one row has its ISBN-10 and its reference
\* and another row has its ISBN-13: the lookup returned the second row
C14_Witness ==
    \E w \in Workers :
       LET c == workers[w] IN
       /\ c.pc = "returned" /\ c.result.success /\ ~c.lookupThrew
       /\ c.book = ParsedBook("r1", "x", "y", "t1", None)
       /\ c.seen = <<Row("y", "r1", "t0", "a0"), Row("x", "r2", "t0", "a0")>>
       /\ c.existingBook = 2

\* C19: the lookup and the write of importBook are two steps and the write
\* goes by what the lookup returned, whatever the catalog holds by then: a
\* call whose lookup returned no row appends a row even when a concurrent
\* call has inserted a row with the same ISBN in between, and a call whose
\* lookup returned a row updates in place. A lookup that did not throw
\* returned no row only when no row matched at the time of the lookup.
C19_LookupThenWriteNotAtomic ==
    \A w \in Wrote :
       LET c == workers[w] IN
       /\ c.existingBook = 0 =>
             /\ Len(c.after) = Len(c.before) + 1
             /\ \A id \in DOMAIN c.before : c.after[id] = c.before[id]
       /\ c.existingBook # 0 => Len(c.after) = Len(c.before)
       /\ (c.existingBook = 0 /\ ~c.lookupThrew) => Present(c.seen, c.book) = {}

\* C19 witness: two concurrent calls import records with the same ISBN-13
\* into an empty catalog; both lookups ran before either insert and found
\* nothing, both calls inserted: the catalog has two rows with that ISBN
C19_Witness ==
    /\ Wrote = Workers
    /\ \A w \in Workers :
          /\ workers[w].book.isbn13 = "x"
          /\ workers[w].seen = <<>>
          /\ ~workers[w].lookupThrew
          /\ workers[w].existingBook = 0
    /\ Len(books) = 2
    /\ books[1].isbn = "x" /\ books[2].isbn = "x"

\* C20 (as claimed): a product written with short tags only and the same
\* product written with reference tags only parse to the same ParsedBook,
\* field by field, publisher, imprint and productForm included.
C20_ShortEqualsReference ==
    parsed.done = {"reference", "short"} => parsed.short = parsed.reference

\* C22 (as claimed): a record whose ISBN a catalog row already has is
\* skipped: the row is left as it was and the record is counted in
\* skippedBooks, not in importedBooks.
C22_DuplicateSkipped ==
    /\ LET w == run.lastWrite IN
       (w.kind # "none" /\ HasIsbn(w.book) /\ Present(w.before, w.book) # {}) =>
          /\ books = w.before
          /\ run.skippedCount >= 1
    /\ \A h \in Calls :
          (/\ h.path = "normal" /\ h.faults = 0
           /\ \A n \in DOMAIN h.content.products :
                 /\ HasIsbn(h.content.products[n])
                 /\ Present(h.booksBefore, h.content.products[n]) # {})
          => /\ h.booksAfter = h.booksBefore
             /\ h.result.skippedBooks = Len(h.content.products)
             /\ h.result.importedBooks = 0

\* C27 (as claimed): with the imports running one after the other, no two
\* catalog rows ever share a non-null isbn, whichever lookups or writes
\* fail.
C27_IsbnUnique ==
    \A a, b \in DOMAIN books :
       (a # b /\ books[a].isbn # None) => books[a].isbn # books[b].isbn

\* C28 (as claimed): for every log in a terminal status whose call has
\* ended, errorCount is the number of ImportError rows of that log.
C28_ErrorCountMatchesRows ==
    \A h \in Returned :
       importLogs[h.importLogId].status \in Terminal =>
          importLogs[h.importLogId].errorCount = Len(ErrorsOf(h.importLogId))

\* C29 (as claimed): the result a call of importOnixFile returns carries
\* the counts of its persisted log: totalBooks, importedBooks, skippedBooks
\* and errorCount are the same in both, on every return path.
C29_ResultMatchesLog ==
    \A h \in Returned :
       LET log == importLogs[h.importLogId] IN
       /\ h.result.totalBooks = log.totalBooks
       /\ h.result.importedBooks = log.importedBooks
       /\ h.result.skippedBooks = log.skippedBooks
       /\ h.result.errorCount = log.errorCount

\* the text of a child of a node, None when the node has no such child
FieldOf(node, tag) == IF <<tag>> \in DOMAIN node THEN node[<<tag>>] ELSE None

\* the positions of the nodes with one of the type codes
WithType(list, tag, codes) == { k \in DOMAIN list : FieldOf(list[k], tag) \in codes }

\* the positions of the identifier nodes with one of the type codes and a value
WithTypeAndValue(list, codes) ==
    { k \in WithType(list, "ProductIDType", codes) : Truthy(FieldOf(list[k], "IDValue")) }

\* the largest position of a set of positions
Last(S) == CHOOSE k \in S : \A j \in S : j <= k

\* C21 (as claimed): isbn13 is populated iff the product has an identifier
\* node with type code 03 or 15, isbn10 iff it has one with type code 02,
\* and the value kept is that of the last such node.
C21_IsbnIffTypeCode ==
    (nodes.kind = "ProductIdentifier" /\ extracted.done) =>
       LET n13 == WithType(nodes.list, "ProductIDType", {"03", "15"})
           n10 == WithType(nodes.list, "ProductIDType", {"02"}) IN
       /\ extracted.isbn.isbn13 # None <=> n13 # {}
       /\ extracted.isbn.isbn10 # None <=> n10 # {}
       /\ n13 # {} => extracted.isbn.isbn13 = FieldOf(nodes.list[Last(n13)], "IDValue")
       /\ n10 # {} => extracted.isbn.isbn10 = FieldOf(nodes.list[Last(n10)], "IDValue")

\* C21 (amended): isbn13 is populated iff the product has an identifier
\* node with type code 03 or 15 and a non-empty value, isbn10 iff it has
\* one with type code 02 and a non-empty value; the value kept is that of
\* the last such node in document order; a node with no value changes
\* nothing.
C21_IsbnIffTypeCodeAndValue ==
    (nodes.kind = "ProductIdentifier" /\ extracted.done) =>
       LET n13 == WithTypeAndValue(nodes.list, {"03", "15"})
           n10 == WithTypeAndValue(nodes.list, {"02"}) IN
       /\ extracted.isbn.isbn13 # None <=> n13 # {}
       /\ extracted.isbn.isbn10 # None <=> n10 # {}
       /\ n13 # {} => extracted.isbn.isbn13 = FieldOf(nodes.list[Last(n13)], "IDValue")
       /\ n10 # {} => extracted.isbn.isbn10 = FieldOf(nodes.list[Last(n10)], "IDValue")

\* C21 witness: two ISBN-13 nodes, type 03 with value v1 and then type 15
\* with value v2: the second value is kept
C21_Witness ==
    /\ nodes.kind = "ProductIdentifier" /\ extracted.done
    /\ Len(nodes.list) = 2
    /\ FieldOf(nodes.list[1], "ProductIDType") = "03"
    /\ FieldOf(nodes.list[1], "IDValue") = "v1"
    /\ FieldOf(nodes.list[2], "ProductIDType") = "15"
    /\ FieldOf(nodes.list[2], "IDValue") = "v2"
    /\ extracted.isbn.isbn13 = "v2"

\* C24 (as claimed): publicationDate is the date of the publishing-date
\* node with role code 01, wherever it stands among the publishing-date
\* nodes; other roles never supply it, and it is absent only when there is
\* no role-01 node.
C24_PublicationDateFromRole01 ==
    (nodes.kind = "PublishingDate" /\ extracted.done) =>
       LET r01 == { k \in WithType(nodes.list, "PublishingDateRole", {"01"}) :
                      Truthy(FieldOf(nodes.list[k], "Date")) } IN
       /\ r01 # {} =>
             \E k \in r01 : extracted.publicationDate = FieldOf(nodes.list[k], "Date")
       /\ r01 = {} => extracted.publicationDate = None

\* an integer or absent
IntegerOrAbsent(n) == n.kind \in {"number", "undefined"}

\* C25 (as claimed): pageCount comes only from an extent node with type
\* code 00 or 10, and it is an integer or absent: absent when the extent
\* value is not an integer.
C25_PageCountIntegerOrAbsent ==
    (nodes.kind = "Extent" /\ extracted.done) =>
       /\ extracted.pageCount # Undefined =>
             \E k \in WithType(nodes.list, "ExtentType", {"00", "10"}) :
                Truthy(FieldOf(nodes.list[k], "ExtentValue"))
       /\ IntegerOrAbsent(extracted.pageCount)

\* the sender name the header carries where parseOnixFile looks for it
SenderName(header) ==
    IF <<"Sender", "SenderName">> \in DOMAIN header THEN header[<<"Sender", "SenderName">>]
    ELSE IF <<"sender", "x298">> \in DOMAIN header THEN header[<<"sender", "x298">>]
    ELSE None

C23_BlockedBeforeApiCall ==
    \A c \in Callers :
       ops[c].pc = "blocked" => (~ops[c].apiCalled /\ ~ops[c].wrote)

\* C30 (as claimed): whatever the interleaving of the deductCredits calls
\* for a user, creditsUsed never exceeds creditQuota and creditsUsed equals
\* the sum of creditsDeducted over the user's creditUsage rows.
C30_CreditsWithinQuotaAndAccounted ==
    /\ users[UserId].creditsUsed <= users[UserId].creditQuota
    /\ users[UserId].creditsUsed = Sum(creditUsage, "creditsDeducted")

====
